---- MODULE Spec2Model ----
(***************************************************************************)
(* A model of google-drive-to-photos: the migration pipeline of            *)
(* photos_uploader.py (PhotosUploader: tracker, duplicate check, the       *)
(* per-asset transfer loop of upload_all) and the tree walker of           *)
(* drive_scanner.py (DriveScanner: resolve_folder_path, scan_folder, scan, *)
(* scan_paths).                                                            *)
(*                                                                         *)
(* Strings that the code builds by formatting are sequences of their       *)
(* parts; a path "a/b/c" is the sequence of its segments.                  *)
(***************************************************************************)
EXTENDS Integers, Sequences, FiniteSets, TLC

VARIABLES
    \* ---- photos_uploader.py ----
    photos,           \* the asset list handed to upload_all
    skip_duplicates,  \* PhotosUploader.skip_duplicates
    tracker_file,     \* output/uploaded_photos.json on disk
    uploaded_photos,  \* PhotosUploader.uploaded_photos (the in-memory tracker)
    upload_results,   \* PhotosUploader.upload_results
    album_id,         \* PhotosUploader.album_id
    pc,               \* position of the process inside the run
    i,                \* 1-based index of the asset being processed
    result,           \* the local `result` dict of the loop body
    response,         \* the last HTTP response received (`response`)
    calls,            \* log of the external calls of this run: <<kind, index>>
    media_items,      \* items created in the destination during this run
    loaded_tracker,   \* what _load_uploaded_tracker returned at construction
    prev_run,         \* how the previous run of the process ended, and what it confirmed
    asset_start,      \* both trackers as they were when the loop body began the asset in hand
    counts,           \* the local skipped_count of upload_all and the counts it printed
    \* ---- drive_scanner.py ----
    tree,             \* the Drive folder tree: node -> [parent, kind]
    folder_paths,     \* the root paths handed to scan_paths
    photos_found,     \* DriveScanner.photos_found
    empty_folders,    \* DriveScanner.empty_folders
    scan_roots,       \* the paths the scan was started on (its top-level scan_folder calls)
    spc,              \* position of the scanner
    path_ix,          \* index into folder_paths of the path scan_paths handles next
    lookups,          \* the files().list queries of the last resolve_folder_path call
    fail_at,          \* the files().list request of a listing that raises, if any
    written           \* what write_results has written to the output directory

upl_vars == <<photos, skip_duplicates, tracker_file, uploaded_photos, upload_results,
              album_id, pc, i, result, response, calls, media_items, loaded_tracker,
              prev_run, asset_start, counts>>
scan_vars == <<tree, folder_paths, photos_found, empty_folders, scan_roots, spc, path_ix,
               lookups, fail_at, written>>
vars == <<upl_vars, counts, scan_vars>>

-----------------------------------------------------------------------------
(* Bounds of the model *)

\* longest asset list handed to upload_all
MaxAssets == 2

\* most entries (folders and files) in the Drive below 'root'
MaxNodes == 3

\* longest list of root paths handed to scan_paths
MaxRoots == 2

-----------------------------------------------------------------------------
(* Values *)

\* a dict key that is not present (dict.get returning its default is modelled at the use)
Absent == <<"<absent>">>

\* None where the code expects a string (a checksum the scan did not get)
PyNone == "<None>"

\* the truth value of a string or None in an `if`
Truthy(s) == s # "" /\ s # PyNone

\* the assets a scan can have listed: two files with the same content (another
\* identifier, another path), and a file listed once without and once with its
\* checksum
AssetPool ==
    { [id |-> "f1", path |-> <<"P", "a.jpg">>, mimeType |-> "image/jpeg", md5Checksum |-> "c1"],
      [id |-> "f2", path |-> <<"Q", "a.jpg">>, mimeType |-> "image/jpeg", md5Checksum |-> "c1"],
      [id |-> "f3", path |-> <<"P", "b.jpg">>, mimeType |-> "image/jpeg", md5Checksum |-> ""],
      [id |-> "f3", path |-> <<"P", "b.jpg">>, mimeType |-> "image/jpeg", md5Checksum |-> "c2"] }

RECURSIVE SeqsUpTo(_, _)
\* all sequences over S of length at most n
SeqsUpTo(S, n) ==
    IF n = 0 THEN { <<>> }
    ELSE LET shorter == SeqsUpTo(S, n - 1)
         IN shorter \cup { Append(s, x) : s \in { t \in shorter : Len(t) = n - 1 }, x \in S }

EmptyMap == [c \in {} |-> 0]

\* m with key k set to e (dict item assignment)
MapSet(m, k, e) == [c \in DOMAIN m \cup {k} |-> IF c = k THEN e ELSE m[c]]

-----------------------------------------------------------------------------
(* The tracker file: json.dump / json.load of uploaded_photos *)

\* a dump that writes one member of the map only
JsonDump_OneMember(m) ==
    IF DOMAIN m = {} THEN {} ELSE LET k == CHOOSE c \in DOMAIN m : TRUE IN { <<k, m[k]>> }

\* json.dump(self.uploaded_photos): the members of the JSON object
JsonDump(m) == { <<k, m[k]>> : k \in DOMAIN m }

\* json.load of an object: a dict of its members
JsonLoad(members) ==
    [k \in { p[1] : p \in members } |-> (CHOOSE p \in members : p[1] = k)[2]]

\* no file / a file that is no JSON document (truncated, torn) / a JSON object /
\* a file whose bytes are no UTF-8 text; `utf8` says that the bytes decode
FileMissing == [exists |-> FALSE, utf8 |-> TRUE, valid |-> FALSE, members |-> {}]
FileCorrupt == [exists |-> TRUE, utf8 |-> TRUE, valid |-> FALSE, members |-> {}]
FileOf(m) == [exists |-> TRUE, utf8 |-> TRUE, valid |-> TRUE, members |-> JsonDump(m)]
FileUndecodable == [exists |-> TRUE, utf8 |-> FALSE, valid |-> FALSE, members |-> {}]

\* a loader that takes every file for unreadable
LoadUploadedTracker_AlwaysEmpty(f) == EmptyMap

\* PhotosUploader._load_uploaded_tracker
LoadUploadedTracker(f) ==
    IF f.exists /\ f.valid THEN JsonLoad(f.members) ELSE EmptyMap

\* _load_uploaded_tracker raises: of what open and json.load raise, the except
\* clause catches JSONDecodeError and IOError, and the UnicodeDecodeError of
\* undecodable bytes is neither
LoadRaises(f) == f.exists /\ ~f.utf8

-----------------------------------------------------------------------------
(* PhotosUploader: the tracker *)

\* a duplicate check that forgets the checksum and looks at the identifier only
is_duplicate_ByIdOnly(md5_checksum, file_id) ==
    /\ skip_duplicates
    /\ \E c \in DOMAIN uploaded_photos : uploaded_photos[c].file_id = file_id

\* a duplicate check that looks at the checksum only
is_duplicate_ByChecksumOnly(md5_checksum, file_id) ==
    /\ skip_duplicates
    /\ Truthy(md5_checksum)
    /\ md5_checksum \in DOMAIN uploaded_photos

\* PhotosUploader.is_duplicate: the early return when skipping is disabled, the
\* test of the checksum, then the loop over the entries
is_duplicate(md5_checksum, file_id) ==
    IF ~skip_duplicates THEN FALSE
    ELSE IF Truthy(md5_checksum) /\ md5_checksum \in DOMAIN uploaded_photos THEN TRUE
    ELSE \E c \in DOMAIN uploaded_photos : uploaded_photos[c].file_id = file_id

\* datetime.now().isoformat() at a call site of the loop body: the logical time
\* of the call inside the run
Now(site) == <<i, site>>

\* the entry record_upload stores under the checksum
TrackerEntry(file_id, photos_id, path) ==
    [file_id |-> file_id, photos_id |-> photos_id, path |-> path,
     uploaded_at |-> Now("record")]

\* a record_upload that stores an entry whatever the checksum is
RecordedTracker_AnyChecksum(md5_checksum, file_id, photos_id, path) ==
    MapSet(uploaded_photos, md5_checksum, TrackerEntry(file_id, photos_id, path))

\* a record_upload that keys the entry by the file identifier
RecordedTracker_KeyedById(md5_checksum, file_id, photos_id, path) ==
    IF Truthy(md5_checksum)
    THEN MapSet(uploaded_photos, file_id, TrackerEntry(file_id, photos_id, path))
    ELSE uploaded_photos

\* record_upload's update of self.uploaded_photos (before _save_uploaded_tracker)
RecordedTracker(md5_checksum, file_id, photos_id, path) ==
    IF Truthy(md5_checksum)
    THEN MapSet(uploaded_photos, md5_checksum, TrackerEntry(file_id, photos_id, path))
    ELSE uploaded_photos

-----------------------------------------------------------------------------
(* PhotosUploader.upload_all: the results it builds *)

\* the dict appended for a duplicate
SkippedResult(photo) ==
    [path |-> photo.path, file_id |-> photo.id, timestamp |-> Now("skip"),
     success |-> TRUE, status |-> "SKIPPED_DUPLICATE",
     md5Checksum |-> photo.md5Checksum, photos_id |-> Absent, error |-> Absent]

\* the local `result` dict before the transfer: success and status not set yet
NewResult(photo) ==
    [path |-> photo.path, file_id |-> photo.id, timestamp |-> Now("result"),
     success |-> FALSE, status |-> "<unset>",
     md5Checksum |-> photo.md5Checksum, photos_id |-> Absent, error |-> Absent]

\* upload_result['success'] is true: status SUCCESS and the item's id
SuccessResult(res, photos_id) ==
    [res EXCEPT !.success = TRUE, !.status = "SUCCESS", !.photos_id = photos_id]

\* upload_result['success'] is false: status FAILED and the error of upload_to_photos
FailedResult(res, error) ==
    [res EXCEPT !.success = FALSE, !.status = "FAILED", !.error = error]

\* an except branch that leaves result['success'] as the try block set it
ErrorResult_KeepsSuccess(res, e) ==
    [res EXCEPT !.status = "ERROR", !.error = e]

\* the except branch: status ERROR and str(e)
ErrorResult(res, e) ==
    [res EXCEPT !.success = FALSE, !.status = "ERROR", !.error = e]

\* the status codes the destination answers with, and their text in an f-string
StatusCodes == {200, 500}
Str(code) == IF code = 200 THEN "200" ELSE "500"

\* response.text of a rejected request, and of an accepted byte upload (the token)
ErrorBodies == { <<"Internal error">> }
UploadToken == <<"token">>

\* a response: the request it answers (url, and the asset it was sent for), its
\* status code and its body
Response(url, code, text) == [url |-> url, item |-> i, status_code |-> code, text |-> text]
NoResponse == [url |-> "", item |-> 0, status_code |-> 0, text |-> <<>>]

\* upload_to_photos: the error of a rejected byte upload
UploadFailedError(resp) ==
    <<"Upload failed: ", Str(resp.status_code), " - ">> \o resp.text

\* a batchCreate error that drops the prefix and the status code
CreateFailedError_BodyOnly(resp) == resp.text

\* upload_to_photos: the error of a rejected batchCreate
CreateFailedError(resp) ==
    <<"Media item creation failed: ", Str(resp.status_code), " - ">> \o resp.text

\* counts not printed
NoCount == [uploaded |-> -1, skipped |-> -1, failed |-> -1]

\* upload_all begins: skipped_count = 0, nothing printed yet
NoCounts == [skipped_count |-> 0, printed |-> NoCount]

\* no asset in hand
NoSnapshot == [mem |-> EmptyMap, file |-> FileMissing]

\* the in-memory tracker and the tracker file, as they are now
Snapshot == [mem |-> uploaded_photos, file |-> tracker_file]

\* a loop body that lets a failed asset end the loop (the failure is re-raised)
AppendResult_AbortOnFailure(r) ==
    IF r.success
    THEN /\ upload_results' = Append(upload_results, r)
         /\ i' = i + 1
         /\ pc' = "check"
         /\ asset_start' = NoSnapshot
    ELSE /\ pc' = "aborted"
         /\ asset_start' = NoSnapshot
         /\ UNCHANGED <<upload_results, i>>

\* self.upload_results.append(r) and on to the next asset of the loop
AppendResult(r) ==
    /\ upload_results' = Append(upload_results, r)
    /\ i' = i + 1
    /\ pc' = "check"
    /\ asset_start' = NoSnapshot

Call(kind) == calls' = Append(calls, <<kind, i>>)

-----------------------------------------------------------------------------
(* PhotosUploader.upload_all, step by step *)

\* upload_all with the list it is given, or with the list load_photos_list
\* reads when it is given none; FileNotFoundError leaves upload_all
LoadPhotosList ==
    /\ pc = "start"
    /\ \/ pc' = "album"
       \/ pc' = "aborted"
    /\ UNCHANGED <<photos, skip_duplicates, tracker_file, uploaded_photos, upload_results,
                   album_id, i, result, response, calls, media_items, loaded_tracker,
                   prev_run, asset_start, counts, scan_vars>>

\* an upload_all that goes on without an album when the request is rejected
CreateAlbum_IgnoresFailure ==
    /\ pc = "album"
    /\ \E code \in StatusCodes :
         /\ response' = Response("albums", code, IF code = 200 THEN <<"album">> ELSE <<"Internal error">>)
         /\ album_id' = IF code = 200 THEN "album1" ELSE "<none>"
         /\ upload_results' = <<>>
         /\ i' = 1
         /\ pc' = "check"
    /\ Call("albums")
    /\ UNCHANGED <<photos, skip_duplicates, tracker_file, uploaded_photos, result,
                   media_items, loaded_tracker, prev_run, asset_start, counts, scan_vars>>

\* create_album: the album is created, or the exception of a rejected request
\* leaves upload_all
CreateAlbum ==
    /\ pc = "album"
    /\ \E code \in StatusCodes :
         /\ response' = Response("albums", code, IF code = 200 THEN <<"album">> ELSE <<"Internal error">>)
         /\ IF code = 200
            THEN /\ album_id' = "album1"
                 /\ upload_results' = <<>>
                 /\ i' = 1
                 /\ pc' = "check"
            ELSE /\ pc' = "aborted"
                 /\ UNCHANGED <<album_id, upload_results, i>>
    /\ Call("albums")
    /\ UNCHANGED <<photos, skip_duplicates, tracker_file, uploaded_photos, result,
                   media_items, loaded_tracker, prev_run, asset_start, counts, scan_vars>>

\* a loop body that downloads the asset before it checks for a duplicate
CheckDuplicate_DownloadFirst ==
    /\ pc = "check"
    /\ i <= Len(photos)
    /\ calls' = Append(calls, <<"download", i>>)
    /\ LET photo == photos[i] IN
         IF is_duplicate(photo.md5Checksum, photo.id)
         THEN /\ counts' = [counts EXCEPT !.skipped_count = @ + 1]
              /\ AppendResult(SkippedResult(photo))
              /\ UNCHANGED result
         ELSE /\ result' = NewResult(photo)
              /\ asset_start' = Snapshot
              /\ pc' = "upload"
              /\ UNCHANGED <<upload_results, i, counts>>
    /\ UNCHANGED <<photos, skip_duplicates, tracker_file, uploaded_photos, album_id,
                   response, media_items, loaded_tracker, prev_run, scan_vars>>

\* the head of the loop body: the duplicate check, and either the skipped
\* result or the fresh `result` dict
CheckDuplicate ==
    /\ pc = "check"
    /\ i <= Len(photos)
    /\ LET photo == photos[i] IN
         IF is_duplicate(photo.md5Checksum, photo.id)
         THEN /\ counts' = [counts EXCEPT !.skipped_count = @ + 1]
              /\ AppendResult(SkippedResult(photo))
              /\ UNCHANGED result
         ELSE /\ result' = NewResult(photo)
              /\ asset_start' = Snapshot
              /\ pc' = "download"
              /\ UNCHANGED <<upload_results, i, counts>>
    /\ UNCHANGED <<photos, skip_duplicates, tracker_file, uploaded_photos, album_id,
                   response, calls, media_items, loaded_tracker, prev_run, scan_vars>>

\* download_from_drive: the bytes, or an exception caught by the loop body
Download ==
    /\ pc = "download"
    /\ Call("download")
    /\ \/ /\ pc' = "upload"
          /\ UNCHANGED <<upload_results, i, asset_start>>
       \/ AppendResult(ErrorResult(result, <<"download error">>))
    /\ UNCHANGED <<photos, skip_duplicates, tracker_file, uploaded_photos, album_id,
                   result, response, media_items, loaded_tracker, prev_run, counts, scan_vars>>

\* upload_to_photos, step 1: POST /uploads
UploadBytes ==
    /\ pc = "upload"
    /\ Call("uploads")
    /\ \/ \E code \in StatusCodes, body \in ErrorBodies :
            LET resp == Response("uploads", code, IF code = 200 THEN UploadToken ELSE body) IN
            /\ response' = resp
            /\ IF code = 200
               THEN /\ pc' = "register"
                    /\ UNCHANGED <<upload_results, i, asset_start>>
               ELSE AppendResult(FailedResult(result, UploadFailedError(resp)))
       \/ /\ AppendResult(ErrorResult(result, <<"connection error">>))
          /\ UNCHANGED response
    /\ UNCHANGED <<photos, skip_duplicates, tracker_file, uploaded_photos, album_id,
                   result, media_items, loaded_tracker, prev_run, counts, scan_vars>>

\* what newMediaItemResults of an accepted batchCreate can hold: the created
\* item, an item the service refused, or nothing
ItemResults == {"Success", "Refused", "None"}

\* the id the destination gives the item it creates for the asset
MediaItemId == <<"mediaItem", i>>

\* a registration that takes an accepted request for a created item, whatever
\* newMediaItemResults says about the item
Register_TrustsAcceptedRequest ==
    /\ pc = "register"
    /\ Call("batchCreate")
    /\ \/ \E code \in StatusCodes \ {200}, body \in ErrorBodies :
            LET resp == Response("batchCreate", code, body) IN
            /\ response' = resp
            /\ AppendResult(FailedResult(result, CreateFailedError(resp)))
            /\ UNCHANGED <<result, media_items>>
       \/ \E items \in ItemResults :
            /\ response' = Response("batchCreate", 200, <<"json">>)
            /\ media_items' = IF items = "Success"
                              THEN media_items \cup
                                     {[file_id |-> result.file_id, photos_id |-> MediaItemId]}
                              ELSE media_items
            /\ result' = SuccessResult(result, MediaItemId)
            /\ pc' = "record"
            /\ UNCHANGED <<upload_results, i, asset_start>>
       \/ /\ AppendResult(ErrorResult(result, <<"connection error">>))
          /\ UNCHANGED <<result, response, media_items>>
    /\ UNCHANGED <<photos, skip_duplicates, tracker_file, uploaded_photos, album_id,
                   loaded_tracker, prev_run, counts, scan_vars>>

\* upload_to_photos, step 2: POST /mediaItems:batchCreate, and lines 313-317 or
\* 321-322 of the loop body
Register ==
    /\ pc = "register"
    /\ Call("batchCreate")
    /\ \/ \E code \in StatusCodes \ {200}, body \in ErrorBodies :
            LET resp == Response("batchCreate", code, body) IN
            /\ response' = resp
            /\ AppendResult(FailedResult(result, CreateFailedError(resp)))
            /\ UNCHANGED <<result, media_items>>
       \/ \E items \in ItemResults :
            /\ response' = Response("batchCreate", 200, <<"json">>)
            /\ IF items = "Success"
               THEN /\ media_items' = media_items \cup
                                       {[file_id |-> result.file_id, photos_id |-> MediaItemId]}
                    /\ result' = SuccessResult(result, MediaItemId)
                    /\ pc' = "record"
                    /\ UNCHANGED <<upload_results, i, asset_start>>
               ELSE /\ AppendResult(FailedResult(result,
                          IF items = "Refused" THEN <<"{'message': 'Refused'}">>
                                               ELSE <<"Unknown error">>))
                    /\ UNCHANGED <<result, media_items>>
       \/ /\ AppendResult(ErrorResult(result, <<"connection error">>))
          /\ UNCHANGED <<result, response, media_items>>
    /\ UNCHANGED <<photos, skip_duplicates, tracker_file, uploaded_photos, album_id,
                   loaded_tracker, prev_run, counts, scan_vars>>

\* record_upload up to the open(..., 'w') of _save_uploaded_tracker: nothing for
\* an asset without checksum; otherwise the entry is stored and the file is
\* opened for writing (which truncates it), unless mkdir or open raise
RecordUpload ==
    /\ pc = "record"
    /\ Call("record")
    /\ LET photo == photos[i] IN
         /\ uploaded_photos' =
                RecordedTracker(photo.md5Checksum, photo.id, result.photos_id, photo.path)
         /\ IF ~Truthy(photo.md5Checksum)
            THEN /\ AppendResult(result)
                 /\ UNCHANGED tracker_file
            ELSE \/ /\ tracker_file' = FileCorrupt
                    /\ pc' = "saving"
                    /\ UNCHANGED <<upload_results, i, asset_start>>
                 \/ /\ AppendResult(ErrorResult(result, <<"cannot open tracker file">>))
                    /\ UNCHANGED tracker_file
    /\ UNCHANGED <<photos, skip_duplicates, album_id, result, response, media_items,
                   loaded_tracker, prev_run, counts, scan_vars>>

\* _save_uploaded_tracker after the open: json.dump writes the whole map and the
\* file is closed, or the write raises and leaves the file torn
SaveTracker ==
    /\ pc = "saving"
    /\ \/ /\ tracker_file' = FileOf(uploaded_photos)
          /\ AppendResult(result)
       \/ /\ AppendResult(ErrorResult(result, <<"cannot write tracker file">>))
          /\ UNCHANGED tracker_file
    /\ UNCHANGED <<photos, skip_duplicates, uploaded_photos, album_id, result, response,
                   calls, media_items, loaded_tracker, prev_run, counts, scan_vars>>

\* the number of results with one of the statuses
CountStatus(statuses) ==
    Cardinality({ k \in DOMAIN upload_results : upload_results[k].status \in statuses })

\* the loop is over: the summary is printed (success_count, the local
\* skipped_count, fail_count) and upload_all returns
Summary ==
    /\ pc = "check"
    /\ i > Len(photos)
    /\ counts' = [counts EXCEPT !.printed =
                     [uploaded |-> CountStatus({"SUCCESS"}),
                      skipped |-> counts.skipped_count,
                      failed |-> CountStatus({"FAILED", "ERROR"})]]
    /\ pc' = "done"
    /\ UNCHANGED <<photos, skip_duplicates, tracker_file, uploaded_photos, upload_results,
                   album_id, i, result, response, calls, media_items, loaded_tracker,
                   prev_run, asset_start, scan_vars>>

\* a report header that counts the results whose success flag is set as uploaded
write_results_CountsSuccessFlag ==
    [total |-> Len(upload_results),
     uploaded |-> Cardinality({ k \in DOMAIN upload_results : upload_results[k].success }),
     skipped |-> CountStatus({"SKIPPED_DUPLICATE"}),
     failed |-> CountStatus({"FAILED", "ERROR"})]

\* write_results: the counts in the header of upload_status.txt, computed from
\* self.upload_results
write_results ==
    [total |-> Len(upload_results),
     uploaded |-> CountStatus({"SUCCESS"}),
     skipped |-> CountStatus({"SKIPPED_DUPLICATE"}),
     failed |-> CountStatus({"FAILED", "ERROR"})]

Running == {"start", "album", "check", "download", "upload", "register", "record", "saving"}

NoResult == [path |-> <<>>, file_id |-> "", timestamp |-> <<0, "">>, success |-> FALSE,
             status |-> "<unset>", md5Checksum |-> "", photos_id |-> Absent, error |-> Absent]

\* what the run that ended left behind, as far as the claims about the run
\* after it use it: how it ended; of a run that returned, its duplicate-skipping
\* flag and whether every result was successful; of a run that crashed, the
\* checksums of its SUCCESS results
RunSummary(ended) ==
    [ended |-> ended,
     skip |-> ended = "done" /\ skip_duplicates,
     confirmed |-> IF ended # "crashed" THEN {}
                   ELSE { upload_results[k].md5Checksum : k \in
                            { j \in DOMAIN upload_results :
                                /\ upload_results[j].status = "SUCCESS"
                                /\ upload_results[j].md5Checksum # "" } },
     clean |-> /\ ended = "done"
               /\ \A k \in DOMAIN upload_results : upload_results[k].success]

\* the process dies (kill, power loss) wherever it is: its memory is gone, only
\* the file survives
Crash ==
    /\ pc \in Running
    /\ pc' = "crashed"
    /\ prev_run' = RunSummary("crashed")
    /\ uploaded_photos' = EmptyMap
    /\ loaded_tracker' = EmptyMap
    /\ upload_results' = <<>>
    /\ album_id' = "<none>"
    /\ i' = 0
    /\ result' = NoResult
    /\ response' = NoResponse
    /\ calls' = <<>>
    /\ media_items' = {}
    /\ asset_start' = NoSnapshot
    /\ counts' = NoCounts
    /\ UNCHANGED <<photos, skip_duplicates, tracker_file, scan_vars>>

\* PhotosUploader.__init__ of the next run over the same asset list: the
\* tracker is loaded from the file
Restart ==
    /\ pc \in {"done", "crashed", "aborted"}
    /\ prev_run' = IF pc = "crashed" THEN prev_run ELSE RunSummary(pc)
    /\ skip_duplicates' \in BOOLEAN
    /\ uploaded_photos' = LoadUploadedTracker(tracker_file)
    /\ loaded_tracker' = LoadUploadedTracker(tracker_file)
    /\ upload_results' = <<>>
    /\ album_id' = "<none>"
    /\ pc' = IF LoadRaises(tracker_file) THEN "load_failed" ELSE "start"
    /\ i' = 0
    /\ result' = NoResult
    /\ response' = NoResponse
    /\ calls' = <<>>
    /\ media_items' = {}
    /\ asset_start' = NoSnapshot
    /\ counts' = NoCounts
    /\ UNCHANGED <<photos, tracker_file, scan_vars>>

-----------------------------------------------------------------------------
(* The Drive: entries 1..Len(tree) below 'root' (entry 0) *)

FOLDER_MIME == "application/vnd.google-apps.folder"

PHOTO_MIME_TYPES ==
    { "image/jpeg", "image/png", "image/gif", "image/bmp", "image/webp", "image/tiff",
      "image/heic", "image/heif", "image/raw", "image/x-raw", "image/x-canon-cr2",
      "image/x-nikon-nef", "image/x-sony-arw", "image/x-panasonic-rw2",
      "image/x-olympus-orf", "image/x-fuji-raf", "image/x-adobe-dng" }

\* the content types of the entries of the modelled Drives
MimeTypes == {FOLDER_MIME, "image/heic", "application/pdf"}

Root == 0
None == -1

\* the name of entry n (names are unique in the modelled Drives)
Name(n) == <<"a", "b", "c", "d", "e", "f">>[n]

IsFolder(t, n) == n = Root \/ (n \in DOMAIN t /\ t[n].mimeType = FOLDER_MIME)

\* the Drives of up to n entries: each entry lies in 'root' or in a folder
\* created before it
RECURSIVE Trees(_)
Trees(n) ==
    IF n = 0 THEN { <<>> }
    ELSE LET smaller == Trees(n - 1) IN
         smaller \cup
         { Append(t, [parent |-> p, mimeType |-> m]) :
             t \in { u \in smaller : Len(u) = n - 1 },
             p \in 0..(n - 1), m \in MimeTypes }

WellFormed(t) == \A n \in DOMAIN t : IsFolder(t, t[n].parent)

\* the path of entry n from 'root', without the "My Drive" segment
RECURSIVE PathFromRoot(_, _)
PathFromRoot(t, n) ==
    IF n = Root THEN <<>> ELSE Append(PathFromRoot(t, t[n].parent), Name(n))

\* the root paths a user can give for Drive t: "My Drive", an entry (a folder,
\* or a file taken for one) by its full path, a top-level folder without the
\* "My Drive" segment, a path that names no folder at its first segment, and
\* a path with "My Drive" as a later segment
PathPool(t) ==
    { <<"My Drive">> \o PathFromRoot(t, n) : n \in DOMAIN t \cup {Root} }
      \cup { <<Name(n)>> : n \in { m \in DOMAIN t : IsFolder(t, m) /\ t[m].parent = Root } }
      \cup { <<"My Drive", "missing", "a">>, <<"My Drive", "My Drive">> }

-----------------------------------------------------------------------------
(* DriveScanner *)

\* get_folder_name
get_folder_name(folder_id) == IF folder_id = Root THEN "My Drive" ELSE Name(folder_id)

\* no files().list request of a listing raises
NoFailure == [folder |-> None, after |-> 0]

\* list_files_in_folder: the entries whose parent is folder_id, as the generator
\* yields them. The request for a page is the first one, or follows a page
\* that carried a nextPageToken; when it raises, the items of the pages before
\* it have been yielded and the exception leaves the generator
list_files_in_folder(folder_id) ==
    LET files == SelectSeq([n \in 1..Len(tree) |-> n], LAMBDA n : tree[n].parent = folder_id)
        raises == /\ fail_at.folder = folder_id
                  /\ (fail_at.after = 0 \/ fail_at.after < Len(files))
    IN [items |-> IF raises THEN SubSeq(files, 1, fail_at.after) ELSE files,
        raised |-> raises]

\* an is_photo that knows JPEG only
is_photo_JpegOnly(mime_type) == mime_type = "image/jpeg"

\* is_photo
is_photo(mime_type) == mime_type \in PHOTO_MIME_TYPES

\* the loop of resolve_folder_path over the segments left: the folder id (or
\* None) it returns, and the queries it has sent, in order
RECURSIVE Navigate(_, _, _)
Navigate(current_folder_id, parts, queries) ==
    IF parts = <<>> THEN [id |-> current_folder_id, lookups |-> queries]
    ELSE IF Head(parts) = "" THEN Navigate(current_folder_id, Tail(parts), queries)
    ELSE LET query == [parent |-> current_folder_id, name |-> Head(parts)]
             files == { n \in DOMAIN tree :
                          /\ tree[n].parent = query.parent
                          /\ Name(n) = query.name
                          /\ tree[n].mimeType = FOLDER_MIME } IN
         IF files = {} THEN [id |-> None, lookups |-> Append(queries, query)]
         ELSE Navigate(CHOOSE n \in files : TRUE, Tail(parts), Append(queries, query))

\* a resolve_folder_path that looks "My Drive" up like any other segment
resolve_folder_path_NoAlias(folder_path) == Navigate(Root, folder_path, <<>>)

\* resolve_folder_path: the folder id, or None, and the queries sent
resolve_folder_path(folder_path) ==
    Navigate(Root, IF folder_path # <<>> /\ Head(folder_path) = "My Drive"
                   THEN Tail(folder_path) ELSE folder_path, <<>>)

\* item.get('md5Checksum') of entry n: its checksum, or None when the listing
\* carries none
Md5(n) == <<"c1", "c2", PyNone, "c1", "c2", PyNone>>[n]

\* the dict stored for a photo
PhotoData(item_id, full_path) ==
    [id |-> item_id, name |-> Name(item_id), path |-> full_path,
     mimeType |-> tree[item_id].mimeType, md5Checksum |-> Md5(item_id)]

RECURSIVE scan_folder(_, _, _)
RECURSIVE ScanSubfolders(_, _, _, _)
RECURSIVE ScanItems(_, _, _, _)

\* the first loop of scan_folder from item k on: folders are counted and kept
\* for the second loop, files are counted and photos are stored
ScanItems(items, current_path, st, k) ==
    IF k > Len(items) THEN st
    ELSE LET item_id == items[k]
             item_mime == tree[item_id].mimeType
             full_path == Append(current_path, Name(item_id))
         IN ScanItems(items, current_path,
                IF item_mime = FOLDER_MIME
                THEN [st EXCEPT !.subfolders = Append(@, <<item_id, full_path>>),
                                !.subfolder_count = @ + 1]
                ELSE IF is_photo(item_mime)
                THEN [st EXCEPT !.file_count = @ + 1,
                                !.photos_found = Append(@, PhotoData(item_id, full_path))]
                ELSE [st EXCEPT !.file_count = @ + 1],
                k + 1)

\* the second loop of scan_folder from subfolder k on: each subfolder is
\* scanned, and recorded as empty when its own two counts are zero
ScanSubfolders(subfolders, photos_acc, empty_acc, k) ==
    IF k > Len(subfolders)
    THEN [photos_found |-> photos_acc, empty_folders |-> empty_acc, raised |-> FALSE]
    ELSE LET sub == scan_folder(subfolders[k][1], subfolders[k][2],
                                [photos_found |-> photos_acc, empty_folders |-> empty_acc])
         IN IF sub.raised
            THEN [photos_found |-> sub.photos_found, empty_folders |-> sub.empty_folders,
                  raised |-> TRUE]
            ELSE ScanSubfolders(subfolders, sub.photos_found,
                    IF sub.file_count = 0 /\ sub.subfolder_count = 0
                    THEN Append(sub.empty_folders, subfolders[k][2])
                    ELSE sub.empty_folders,
                    k + 1)

\* the first loop of scan_folder on the items the listing yields
FirstLoop(listing, path, acc) ==
    ScanItems(listing.items, path,
              [photos_found |-> acc.photos_found, subfolders |-> <<>>,
               file_count |-> 0, subfolder_count |-> 0], 1)

\* scan_folder when the listing raised inside its first loop: the exception
\* leaves scan_folder, the photos stored so far stay in the list
Raised(st, acc) ==
    [photos_found |-> st.photos_found, empty_folders |-> acc.empty_folders,
     file_count |-> st.file_count, subfolder_count |-> st.subfolder_count,
     raised |-> TRUE]

\* a scan_folder that records the folder it is called on when that folder has
\* no file and no subfolder (instead of leaving that to its caller)
scan_folder_RecordsSelf(folder_id, current_path, acc) ==
    LET path == IF current_path = <<>> THEN <<get_folder_name(folder_id)>> ELSE current_path
        listing == list_files_in_folder(folder_id)
        st == FirstLoop(listing, path, acc)
        after == ScanSubfolders(st.subfolders, st.photos_found, acc.empty_folders, 1)
    IN IF listing.raised THEN Raised(st, acc)
       ELSE [photos_found |-> after.photos_found,
             empty_folders |-> IF st.file_count = 0 /\ st.subfolder_count = 0
                               THEN Append(after.empty_folders, path)
                               ELSE after.empty_folders,
             file_count |-> st.file_count, subfolder_count |-> st.subfolder_count,
             raised |-> after.raised]

\* a scan_folder that leaves the subfolders it recorded as empty out of the
\* subfolder count it returns
scan_folder_DiscountsEmpty(folder_id, current_path, acc) ==
    LET path == IF current_path = <<>> THEN <<get_folder_name(folder_id)>> ELSE current_path
        listing == list_files_in_folder(folder_id)
        st == FirstLoop(listing, path, acc)
        after == ScanSubfolders(st.subfolders, st.photos_found, acc.empty_folders, 1)
    IN IF listing.raised THEN Raised(st, acc)
       ELSE [photos_found |-> after.photos_found, empty_folders |-> after.empty_folders,
             file_count |-> st.file_count,
             subfolder_count |-> Cardinality({ k \in DOMAIN st.subfolders :
                                     \A j \in DOMAIN after.empty_folders :
                                         after.empty_folders[j] # st.subfolders[k][2] }),
             raised |-> after.raised]

\* a scan_folder that catches what the listing raises and goes on with the
\* items it was given before
scan_folder_SwallowsFailure(folder_id, current_path, acc) ==
    LET path == IF current_path = <<>> THEN <<get_folder_name(folder_id)>> ELSE current_path
        listing == list_files_in_folder(folder_id)
        st == FirstLoop(listing, path, acc)
        after == ScanSubfolders(st.subfolders, st.photos_found, acc.empty_folders, 1)
    IN [photos_found |-> after.photos_found, empty_folders |-> after.empty_folders,
        file_count |-> st.file_count, subfolder_count |-> st.subfolder_count,
        raised |-> after.raised]

\* scan_folder(folder_id, current_path) on the lists acc of the scanner: the
\* lists after the call, the returned (file_count, subfolder_count), and
\* whether an exception left the call instead
scan_folder(folder_id, current_path, acc) ==
    LET path == IF current_path = <<>> THEN <<get_folder_name(folder_id)>> ELSE current_path
        listing == list_files_in_folder(folder_id)
        st == FirstLoop(listing, path, acc)
        after == ScanSubfolders(st.subfolders, st.photos_found, acc.empty_folders, 1)
    IN IF listing.raised THEN Raised(st, acc)
       ELSE [photos_found |-> after.photos_found, empty_folders |-> after.empty_folders,
             file_count |-> st.file_count, subfolder_count |-> st.subfolder_count,
             raised |-> after.raised]

NoLists == [photos_found |-> <<>>, empty_folders |-> <<>>]

\* scan(root_folder_id): one scan_folder call on the folder, without a path
Scan ==
    /\ spc = "idle"
    /\ \E root_folder_id \in {None} \cup { n \in DOMAIN tree : IsFolder(tree, n) } :
         LET folder_id == IF root_folder_id = None THEN Root ELSE root_folder_id
             r == scan_folder(folder_id, <<>>, NoLists)
         IN /\ photos_found' = r.photos_found
            /\ empty_folders' = r.empty_folders
            /\ scan_roots' = << [id |-> folder_id, path |-> <<get_folder_name(folder_id)>>] >>
            /\ spc' = IF r.raised THEN "failed" ELSE "done"
    /\ UNCHANGED <<tree, folder_paths, path_ix, lookups, fail_at, written, upl_vars>>

\* scan_paths(folder_paths) up to its loop: the lists are reset
ScanPathsBegin ==
    /\ spc = "idle"
    /\ photos_found' = <<>>
    /\ empty_folders' = <<>>
    /\ scan_roots' = <<>>
    /\ path_ix' = 1
    /\ spc' = "paths"
    /\ UNCHANGED <<tree, folder_paths, lookups, fail_at, written, upl_vars>>

\* a scan_paths that returns at the first path that does not resolve
ScanPath_StopsAtMissing ==
    /\ spc = "paths"
    /\ path_ix <= Len(folder_paths)
    /\ LET folder_path == folder_paths[path_ix]
           resolved == resolve_folder_path(folder_path)
           folder_id == resolved.id
           r == scan_folder(folder_id, folder_path,
                            [photos_found |-> photos_found, empty_folders |-> empty_folders])
       IN IF folder_id # None
          THEN /\ photos_found' = r.photos_found
               /\ empty_folders' = r.empty_folders
               /\ scan_roots' = Append(scan_roots, [id |-> folder_id, path |-> folder_path])
               /\ spc' = IF r.raised THEN "failed" ELSE "paths"
          ELSE /\ spc' = "done"
               /\ UNCHANGED <<photos_found, empty_folders, scan_roots>>
    /\ lookups' = resolve_folder_path(folder_paths[path_ix]).lookups
    /\ path_ix' = path_ix + 1
    /\ UNCHANGED <<tree, folder_paths, fail_at, written, upl_vars>>

\* one round of the loop of scan_paths: the path is resolved and, if found, scanned
ScanPath ==
    /\ spc = "paths"
    /\ path_ix <= Len(folder_paths)
    /\ LET folder_path == folder_paths[path_ix]
           resolved == resolve_folder_path(folder_path)
           folder_id == resolved.id
           r == scan_folder(folder_id, folder_path,
                            [photos_found |-> photos_found, empty_folders |-> empty_folders])
       IN IF folder_id # None
          THEN /\ photos_found' = r.photos_found
               /\ empty_folders' = r.empty_folders
               /\ scan_roots' = Append(scan_roots, [id |-> folder_id, path |-> folder_path])
               /\ spc' = IF r.raised THEN "failed" ELSE "paths"
          ELSE UNCHANGED <<photos_found, empty_folders, scan_roots, spc>>
    /\ lookups' = resolve_folder_path(folder_paths[path_ix]).lookups
    /\ path_ix' = path_ix + 1
    /\ UNCHANGED <<tree, folder_paths, fail_at, written, upl_vars>>

\* scan_paths returns
ScanPathsEnd ==
    /\ spc = "paths"
    /\ path_ix > Len(folder_paths)
    /\ spc' = "done"
    /\ UNCHANGED <<tree, folder_paths, photos_found, empty_folders, scan_roots, path_ix,
                   lookups, fail_at, written, upl_vars>>

\* a file name with the delimiter of photos.txt in it
PipeName == "x|y.jpg"

\* the text of a name or a checksum inside an f-string, as the characters the
\* file format tells apart; None is formatted as the word None
Text(s) ==
    IF s = PipeName THEN <<"x", "|", "y.jpg">>
    ELSE IF s = PyNone THEN <<"None">>
    ELSE IF s = "" THEN <<>>
    ELSE <<s>>

\* the text of a path: its segments with "/" between them
RECURSIVE PathText(_)
PathText(path) ==
    IF path = <<>> THEN <<>>
    ELSE IF Len(path) = 1 THEN Text(path[1])
    ELSE Text(Head(path)) \o <<"/">> \o PathText(Tail(path))

\* the line write_results writes to photos.txt for a photo
PhotoLine(photo) ==
    <<photo.id>> \o <<"|">> \o PathText(photo.path) \o <<"|">> \o <<photo.mimeType>>
      \o <<"|">> \o Text(photo.md5Checksum)

\* the lines of photos.txt: three comment lines, an empty line, a line per photo
PhotosTxt(list) ==
    << <<"#", " Google Drive Photos">>,
       <<"#", " Total: ", Len(list), " photos">>,
       <<"#", " Format: file_id", "|", "path", "|", "mime_type", "|", "md5_checksum">>,
       <<>> >>
      \o [k \in DOMAIN list |-> PhotoLine(list[k])]

\* nothing in the output directory
NotWritten == [done |-> FALSE, photos_txt |-> <<>>, photos_found |-> <<>>,
               empty_folders |-> <<>>]

\* run_scan after the scan has returned: write_results writes photos.txt,
\* photos_metadata.json and empty_folders.txt
WriteScanResults ==
    /\ spc = "done"
    /\ written' = [done |-> TRUE, photos_txt |-> PhotosTxt(photos_found),
                   photos_found |-> photos_found, empty_folders |-> empty_folders]
    /\ spc' = "written"
    /\ UNCHANGED <<tree, folder_paths, photos_found, empty_folders, scan_roots, path_ix,
                   lookups, fail_at, upl_vars>>

-----------------------------------------------------------------------------
(* Initial states *)

\* the scanner, not running
ScanIdle ==
    /\ tree = <<>>
    /\ folder_paths = <<>>
    /\ photos_found = <<>>
    /\ empty_folders = <<>>
    /\ scan_roots = <<>>
    /\ spc = "idle"
    /\ path_ix = 0
    /\ lookups = <<>>
    /\ fail_at = NoFailure
    /\ written = NotWritten

\* PhotosUploader(album_name, skip_duplicates) has been constructed
Init ==
    /\ photos \in SeqsUpTo(AssetPool, MaxAssets)
    /\ skip_duplicates \in BOOLEAN
    /\ tracker_file \in {FileMissing, FileUndecodable}
    /\ uploaded_photos = LoadUploadedTracker(tracker_file)
    /\ loaded_tracker = uploaded_photos
    /\ upload_results = <<>>
    /\ album_id = "<none>"
    /\ pc = IF LoadRaises(tracker_file) THEN "load_failed" ELSE "start"
    /\ i = 0
    /\ result = NoResult
    /\ response = NoResponse
    /\ calls = <<>>
    /\ media_items = {}
    /\ prev_run = [ended |-> "none", skip |-> FALSE, confirmed |-> {}, clean |-> FALSE]
    /\ asset_start = NoSnapshot
    /\ counts = NoCounts
    /\ ScanIdle

Next ==
    \/ LoadPhotosList
    \/ CreateAlbum
    \/ CheckDuplicate
    \/ Download
    \/ UploadBytes
    \/ Register
    \/ RecordUpload
    \/ SaveTracker
    \/ Summary
    \/ Crash
    \/ Restart

Spec == Init /\ [][Next]_vars

\* the uploader, not constructed
UplIdle ==
    /\ photos = <<>>
    /\ skip_duplicates = TRUE
    /\ tracker_file = FileMissing
    /\ uploaded_photos = EmptyMap
    /\ loaded_tracker = EmptyMap
    /\ upload_results = <<>>
    /\ album_id = "<none>"
    /\ pc = "idle"
    /\ i = 0
    /\ result = NoResult
    /\ response = NoResponse
    /\ calls = <<>>
    /\ media_items = {}
    /\ prev_run = [ended |-> "none", skip |-> FALSE, confirmed |-> {}, clean |-> FALSE]
    /\ asset_start = NoSnapshot
    /\ counts = NoCounts

\* DriveScanner() has been constructed, for some Drive and some root paths
ScanInit ==
    /\ tree \in { t \in Trees(MaxNodes) : WellFormed(t) }
    /\ folder_paths \in SeqsUpTo(PathPool(tree), MaxRoots)
    /\ photos_found = <<>>
    /\ empty_folders = <<>>
    /\ scan_roots = <<>>
    /\ spc = "idle"
    /\ path_ix = 0
    /\ lookups = <<>>
    /\ fail_at = NoFailure
    /\ written = NotWritten
    /\ UplIdle

ScanNext ==
    \/ Scan
    \/ ScanPathsBegin
    \/ ScanPath
    \/ ScanPathsEnd

ScanSpec == ScanInit /\ [][ScanNext]_vars

\* the root paths of the runs with a failing listing: none, one, or one
\* followed by "My Drive"
RunPaths(t) ==
    SeqsUpTo(PathPool(t), 1) \cup { <<p, <<"My Drive">>>> : p \in PathPool(t) }

\* the files().list requests of a listing that can raise: the first one for a
\* folder, or one after some of its items
Failures(t) ==
    { [folder |-> f, after |-> n] :
        f \in { m \in DOMAIN t \cup {Root} : IsFolder(t, m) }, n \in 0..(Len(t) - 1) }

\* run_scan is about to scan some Drive, where one request may raise
RunScanInit ==
    /\ tree \in { t \in Trees(MaxNodes) : WellFormed(t) }
    /\ folder_paths \in RunPaths(tree)
    /\ photos_found = <<>>
    /\ empty_folders = <<>>
    /\ scan_roots = <<>>
    /\ spc = "idle"
    /\ path_ix = 0
    /\ lookups = <<>>
    /\ fail_at \in {NoFailure} \cup Failures(tree)
    /\ written = NotWritten
    /\ UplIdle

RunScanNext ==
    \/ Scan
    \/ ScanPathsBegin
    \/ ScanPath
    \/ ScanPathsEnd
    \/ WriteScanResults

RunScanSpec == RunScanInit /\ [][RunScanNext]_vars

\* line.strip(): the line without the blanks at its ends
RECURSIVE Strip(_)
Strip(line) ==
    IF line = <<>> THEN line
    ELSE IF Head(line) = " " THEN Strip(Tail(line))
    ELSE IF line[Len(line)] = " " THEN Strip(SubSeq(line, 1, Len(line) - 1))
    ELSE line

\* line.split('|'): the pieces of the line between the delimiters
RECURSIVE Split(_)
Split(line) ==
    IF line = <<>> THEN << <<>> >>
    ELSE LET rest == Split(Tail(line)) IN
         IF Head(line) = "|" THEN << <<>> >> \o rest
         ELSE << <<Head(line)>> \o rest[1] >> \o Tail(rest)

\* the loop of load_photos_list over the lines of photos.txt from line k on:
\* comments and empty lines are skipped, a line of three parts or more gives
\* a photo, with a checksum when there is a non-empty fourth part
RECURSIVE ReadPhotosTxt(_, _)
ReadPhotosTxt(lines, k) ==
    IF k > Len(lines) THEN <<>>
    ELSE LET line == Strip(lines[k])
             parts == Split(line)
         IN IF line = <<>> \/ Head(line) = "#" THEN ReadPhotosTxt(lines, k + 1)
            ELSE IF Len(parts) >= 3
            THEN << [id |-> parts[1], path |-> parts[2], mimeType |-> parts[3],
                     md5Checksum |-> IF Len(parts) >= 4 /\ parts[4] # <<>>
                                     THEN parts[4] ELSE Absent] >>
                   \o ReadPhotosTxt(lines, k + 1)
            ELSE ReadPhotosTxt(lines, k + 1)

\* load_photos_list when photos_metadata.json is not there: photos.txt is read
LoadLegacy ==
    /\ pc = "idle"
    /\ written.done
    /\ photos' = ReadPhotosTxt(written.photos_txt, 1)
    /\ pc' = "loaded"
    /\ UNCHANGED <<skip_duplicates, tracker_file, uploaded_photos, upload_results,
                   album_id, i, result, response, calls, media_items, loaded_tracker,
                   prev_run, asset_start, counts, scan_vars>>

\* the photos a scan can have stored: a file in "My Drive" or one with the
\* delimiter in its name, with its checksum or with None for it
ScanPool ==
    { [id |-> f, name |-> n, path |-> <<"My Drive", n>>, mimeType |-> "image/heic",
       md5Checksum |-> c] :
        f \in {"f1", "f2"}, n \in {"a.jpg", PipeName}, c \in {"c1", PyNone} }

\* a scan has returned with some photo list
LegacyInit ==
    /\ tree = <<>>
    /\ folder_paths = <<>>
    /\ photos_found \in SeqsUpTo(ScanPool, MaxAssets)
    /\ empty_folders = <<>>
    /\ scan_roots = <<>>
    /\ spc = "done"
    /\ path_ix = 0
    /\ lookups = <<>>
    /\ fail_at = NoFailure
    /\ written = NotWritten
    /\ UplIdle

LegacyNext ==
    \/ WriteScanResults
    \/ LoadLegacy

LegacySpec == LegacyInit /\ [][LegacyNext]_vars

-----------------------------------------------------------------------------
(* Claims about the migration pipeline, checked under Spec *)

Statuses == {"SUCCESS", "SKIPPED_DUPLICATE", "FAILED", "ERROR"}

InLoop == {"check", "download", "upload", "register", "record", "saving"}

\* the external calls of this run made for the asset at index k
CallsFor(k) == { calls[n][1] : n \in { m \in DOMAIN calls : calls[m][2] = k } }

\* C1: once the album is created, upload_all ends with exactly one result per
\* asset, the k-th result being that of the k-th asset, and no failure of an
\* asset ends the loop: the run never aborts after the album exists, every
\* asset processed so far has its result, and the run is done only when all have.
C1_OneResultPerAsset ==
    /\ album_id # "<none>" => pc \in InLoop \cup {"done"}
    /\ pc \in InLoop => Len(upload_results) = i - 1 /\ i <= Len(photos) + 1
    /\ pc \in InLoop \ {"check"} => i <= Len(photos)
    /\ pc = "done" => Len(upload_results) = Len(photos)
    /\ \A k \in DOMAIN upload_results :
         /\ k <= Len(photos)
         /\ upload_results[k].file_id = photos[k].id
         /\ upload_results[k].path = photos[k].path
         /\ upload_results[k].md5Checksum = photos[k].md5Checksum

\* a finished run whose first asset failed and whose second was uploaded
C1_Witness ==
    /\ pc = "done"
    /\ Len(photos) = 2
    /\ upload_results[1].status \in {"FAILED", "ERROR"}
    /\ upload_results[2].status = "SUCCESS"

\* C2: every result in the list has one of the four statuses, and its success
\* flag is true exactly when the status is SUCCESS or SKIPPED_DUPLICATE.
C2_StatusAndSuccess ==
    \A k \in DOMAIN upload_results :
        /\ upload_results[k].status \in Statuses
        /\ upload_results[k].success <=>
               upload_results[k].status \in {"SUCCESS", "SKIPPED_DUPLICATE"}

\* a result that became ERROR after the item was created (the tracker could not
\* be saved)
C2_Witness ==
    \E k \in DOMAIN upload_results :
        /\ upload_results[k].status = "ERROR"
        /\ upload_results[k].photos_id # Absent
        /\ ~ upload_results[k].success

C4_CrashResumption ==
    (pc = "start" /\ skip_duplicates /\ prev_run.ended = "crashed") =>
        prev_run.confirmed \subseteq DOMAIN uploaded_photos

\* the tracker file holds one member per key
OneEntryPerChecksum ==
    \A p \in tracker_file.members, q \in tracker_file.members : p[1] = q[1] => p = q

\* within a run (no crash, no restart in the step) every entry of the in-memory
\* tracker is still there after the step, unchanged
EntriesKept ==
    pc' \notin {"crashed", "start"} =>
        \A c \in DOMAIN uploaded_photos :
            c \in DOMAIN uploaded_photos' /\ uploaded_photos'[c] = uploaded_photos[c]

\* C5 as stated: one entry per checksum, and an existing entry is never
\* overwritten within a run, whatever the duplicate-skipping flag.
C5_Original == [][EntriesKept]_vars

\* C5 amended: one entry per checksum, and in a run with duplicate-skipping
\* enabled an existing entry is never overwritten.
C5_NeverOverwritten == []OneEntryPerChecksum /\ [][skip_duplicates => EntriesKept]_vars

\* with duplicate-skipping, the second of two assets with one checksum was
\* skipped and the entry is still the first asset's
C5_Witness ==
    /\ skip_duplicates
    /\ Len(upload_results) = 2
    /\ upload_results[1].status = "SUCCESS"
    /\ upload_results[2].status = "SKIPPED_DUPLICATE"
    /\ photos[1].md5Checksum = photos[2].md5Checksum
    /\ photos[1].id # photos[2].id
    /\ photos[1].md5Checksum \in DOMAIN uploaded_photos
    /\ uploaded_photos[photos[1].md5Checksum].file_id = photos[1].id

\* C8: with duplicate-skipping, once an asset with checksum c has a SUCCESS
\* result, no later asset with checksum c is ever downloaded, and its result is
\* SKIPPED_DUPLICATE.
C8_LaterSameChecksumSkipped ==
    skip_duplicates =>
        \A j \in DOMAIN upload_results :
            (upload_results[j].status = "SUCCESS" /\ photos[j].md5Checksum # "") =>
                \A k \in (j + 1)..Len(photos) :
                    photos[k].md5Checksum = photos[j].md5Checksum =>
                        /\ "download" \notin CallsFor(k)
                        /\ k \in DOMAIN upload_results =>
                               upload_results[k].status = "SKIPPED_DUPLICATE"

\* the second asset, another file with the first one's checksum, was skipped
C8_Witness ==
    /\ skip_duplicates
    /\ Len(upload_results) = 2
    /\ upload_results[1].status = "SUCCESS"
    /\ photos[1].md5Checksum # ""
    /\ photos[2].md5Checksum = photos[1].md5Checksum
    /\ photos[2].id # photos[1].id
    /\ photos[2].path # photos[1].path
    /\ upload_results[2].status = "SKIPPED_DUPLICATE"

\* the step of the loop body taken for an asset the tracker classifies as a
\* duplicate appends SKIPPED_DUPLICATE and changes nothing else
DuplicateStepFrame ==
    (/\ pc = "check"
     /\ i <= Len(photos)
     /\ is_duplicate(photos[i].md5Checksum, photos[i].id)
     /\ pc' # "crashed") =>
        /\ Len(upload_results') = Len(upload_results) + 1
        /\ upload_results'[Len(upload_results')].status = "SKIPPED_DUPLICATE"
        /\ UNCHANGED <<uploaded_photos, tracker_file, media_items, calls>>

\* C9: a duplicate gets a SKIPPED_DUPLICATE result with no download, upload,
\* registration or record call and with both trackers and the destination
\* unchanged; and no call is made for an asset before its duplicate check.
C9_DuplicateSkipFrame ==
    /\ [](pc = "check" => CallsFor(i) = {})
    /\ [][DuplicateStepFrame]_vars

\* a duplicate has just been skipped
C9_Witness ==
    /\ pc = "check"
    /\ upload_results # <<>>
    /\ upload_results[Len(upload_results)].status = "SKIPPED_DUPLICATE"
    /\ CallsFor(Len(upload_results)) = {}

\* the result of the asset a batchCreate was answered with HTTP 500 for
C10_Answered500 ==
    /\ response.url = "batchCreate"
    /\ response.status_code = 500
    /\ response.item \in DOMAIN upload_results

\* C10 as stated: after a batchCreate answered with HTTP 500 the asset's result
\* is FAILED and its error text is the response body.
C10_Original ==
    C10_Answered500 =>
        /\ upload_results[response.item].status = "FAILED"
        /\ upload_results[response.item].error = response.text

\* C10 amended: the result is FAILED and its error text is
\* "Media item creation failed: 500 - " followed by the response body.
C10_FailedWithPrefixedBody ==
    C10_Answered500 =>
        /\ upload_results[response.item].status = "FAILED"
        /\ upload_results[response.item].error =
               <<"Media item creation failed: ", "500", " - ">> \o response.text

\* a batchCreate was answered with HTTP 500 and the asset has its result
C10_Witness ==
    /\ C10_Answered500
    /\ upload_results[response.item].status = "FAILED"

-----------------------------------------------------------------------------
(* Claims about the tree walker, checked under ScanSpec *)

Range(seq) == { seq[k] : k \in DOMAIN seq }

\* the entries directly in folder n
ChildrenOf(n) == { m \in DOMAIN tree : tree[m].parent = n }

\* folder n holds no file and only folders that are recursively empty
RECURSIVE RecursivelyEmpty(_)
RecursivelyEmpty(n) ==
    \A m \in ChildrenOf(n) : tree[m].mimeType = FOLDER_MIME /\ RecursivelyEmpty(m)

\* the folders strictly below folder n, each with its path relative to n
RECURSIVE FoldersBelow(_, _)
FoldersBelow(n, prefix) ==
    UNION { {<<m, Append(prefix, Name(m))>>} \cup FoldersBelow(m, Append(prefix, Name(m))) :
              m \in { c \in ChildrenOf(n) : tree[c].mimeType = FOLDER_MIME } }

\* C6: after the scan, for every scanned root and every folder F strictly below
\* it, F's path is in the Empty-Folder Records if and only if F has no direct
\* file and every direct subfolder of F is recursively empty.
C6_EmptyIffRecursivelyEmpty ==
    spc = "done" =>
        \A r \in Range(scan_roots) :
            \A f \in FoldersBelow(r.id, r.path) :
                f[2] \in Range(empty_folders) <=> RecursivelyEmpty(f[1])

\* p is a proper prefix of q
StrictPrefix(p, q) == Len(p) < Len(q) /\ SubSeq(q, 1, Len(p)) = p

\* C7 as stated: the path of a scan root is never in the Empty-Folder Records.
C7_Original ==
    \A r \in Range(scan_roots) : r.path \notin Range(empty_folders)

\* C7 amended: the path of a scan root is in the Empty-Folder Records only when
\* the root lies below another root of the list, whose scan recorded it: never
\* for scan(), and never for scan_paths() with roots that do not contain one
\* another.
C7_RootRecordedOnlyBelowAnotherRoot ==
    \A r \in Range(scan_roots) :
        r.path \in Range(empty_folders) =>
            \E q \in Range(scan_roots) : StrictPrefix(q.path, r.path)

\* a finished scan of a root that has no file and no subfolder, not recorded
C7_Witness ==
    /\ spc = "done"
    /\ \E r \in Range(scan_roots) :
         /\ ChildrenOf(r.id) = {}
         /\ r.path \notin Range(empty_folders)

-----------------------------------------------------------------------------
(* Further claims about the migration pipeline, checked under Spec *)

\* the step appends the result of the asset in hand, with one of the statuses
AppendsWithStatus(statuses) ==
    /\ pc \in InLoop
    /\ Len(upload_results') = Len(upload_results) + 1
    /\ upload_results'[Len(upload_results')].status \in statuses

\* C11: whenever the result of an asset is FAILED or ERROR, the in-memory
\* tracker and the tracker file are, when the result is appended, exactly what
\* they were when the loop body began the asset.
C11_FailureLeavesTrackers ==
    [][AppendsWithStatus({"FAILED", "ERROR"}) =>
          /\ uploaded_photos' = asset_start.mem
          /\ tracker_file' = asset_start.file]_vars

\* the kinds of the external calls of this run made for the asset at index k,
\* in the order they were made
CallSeqFor(k) ==
    LET RECURSIVE Kinds(_)
        Kinds(n) == IF n > Len(calls) THEN <<>>
                    ELSE IF calls[n][2] = k THEN <<calls[n][1]>> \o Kinds(n + 1)
                    ELSE Kinds(n + 1)
    IN Kinds(1)

\* the steps of a transfer, in the order of the claim
TransferSteps == <<"download", "uploads", "batchCreate", "record">>

IsPrefix(p, q) == Len(p) <= Len(q) /\ SubSeq(q, 1, Len(p)) = p

\* C12: the calls made for an asset are an initial part of download, byte
\* upload, item registration, tracker record, in that order; an asset whose
\* download failed has status ERROR and no upload call; one whose byte upload
\* the server rejected has status FAILED and no registration call; one whose
\* registration was rejected has status FAILED and no record call; a SUCCESS
\* result carries the identifier of an item that was created, and record is
\* called only for an asset whose item was created.
C12_StepsInOrder ==
    [](\A k \in 1..Len(photos) : \A steps \in {CallSeqFor(k)} :
           LET created == [file_id |-> photos[k].id, photos_id |-> <<"mediaItem", k>>]
                             \in media_items
           IN /\ IsPrefix(steps, TransferSteps)
              /\ "record" \in Range(steps) => created
              /\ k \in DOMAIN upload_results =>
                   LET r == upload_results[k] IN
                   /\ r.status # "SKIPPED_DUPLICATE" => Len(steps) >= 1
                   /\ Len(steps) = 1 => r.status = "ERROR"
                   /\ Len(steps) = 2 => r.status \in {"FAILED", "ERROR"}
                   /\ r.status = "FAILED" /\ Len(steps) = 2 => r.error[1] = "Upload failed: "
                   /\ r.error # Absent /\ r.error[1] = "Upload failed: " =>
                          r.status = "FAILED" /\ steps = SubSeq(TransferSteps, 1, 2)
                   /\ Len(steps) = 3 => r.status \in {"FAILED", "ERROR"} /\ ~created
                   /\ r.error # Absent /\ r.error[1] = "Media item creation failed: " =>
                          r.status = "FAILED" /\ steps = SubSeq(TransferSteps, 1, 3)
                   /\ r.status = "SUCCESS" =>
                          /\ steps = TransferSteps
                          /\ r.photos_id = <<"mediaItem", k>>
                          /\ created)

\* a finished run whose first asset was rejected at the byte upload, after two
\* calls, and whose second asset went through all four steps
C12_Witness ==
    /\ pc = "done"
    /\ Len(upload_results) = 2
    /\ upload_results[1].status = "FAILED"
    /\ CallSeqFor(1) = <<"download", "uploads">>
    /\ upload_results[2].status = "SUCCESS"
    /\ CallSeqFor(2) = TransferSteps

\* C13: a run goes from construction through the loading of the asset list to
\* the creation of the album and only then to the assets: the first external
\* call of a run is the album creation, made after the list was loaded, and
\* there is no second one; the loop is entered only with an album; and a run
\* that stopped because the list could not be loaded or the album could not be
\* created has made no download, upload, registration or record call, has no
\* result and no created item, and both trackers are as the constructor left them.
C13_RunOrder ==
    /\ [](/\ pc \in {"start", "album"} =>
               calls = <<>> /\ upload_results = <<>> /\ album_id = "<none>"
          /\ pc \in InLoop \cup {"done"} => album_id # "<none>" /\ calls # <<>>
          /\ \A n \in DOMAIN calls : (calls[n][1] = "albums") <=> (n = 1)
          /\ pc = "aborted" =>
               /\ Len(calls) <= 1
               /\ upload_results = <<>>
               /\ media_items = {}
               /\ album_id = "<none>"
               /\ uploaded_photos = loaded_tracker)
    /\ [][/\ calls = <<>> /\ calls' # <<>> => pc = "album"
          /\ pc \in {"start", "album"} /\ pc' # "crashed" =>
               UNCHANGED <<tracker_file, uploaded_photos>>]_vars

\* a run that stopped at the rejected album creation
C13_Witness ==
    /\ pc = "aborted"
    /\ calls = << <<"albums", 0>> >>
    /\ response.status_code = 500

\* the checksums and identifiers is_duplicate is asked about: those of the
\* assets, an empty and an absent checksum, a checksum and an identifier that
\* no asset has
AskedChecksums == { a.md5Checksum : a \in AssetPool } \cup {"", PyNone, "c9"}
AskedIds == { a.id : a \in AssetPool } \cup {"f9"}

\* C14: for every tracker the pipeline can hold, every checksum (empty and
\* absent included) and every identifier, is_duplicate is true if and only if
\* duplicate-skipping is enabled and the checksum is non-empty and a key of the
\* tracker, or some entry's file_id is the identifier; and the duplicate check
\* of the loop changes neither the in-memory tracker nor the file.
C14_IsDuplicateIff ==
    /\ [](\A c \in AskedChecksums, f \in AskedIds :
            is_duplicate(c, f) <=>
                /\ skip_duplicates
                /\ \/ c \notin {"", PyNone} /\ \E key \in DOMAIN uploaded_photos : key = c
                   \/ \E key \in DOMAIN uploaded_photos : uploaded_photos[key].file_id = f)
    /\ [][pc = "check" /\ pc' \in InLoop \cup {"done"} =>
            UNCHANGED <<uploaded_photos, tracker_file>>]_vars

\* a finished run that skipped an asset without checksum by its identifier: the
\* tracker answers true for an absent checksum with that identifier and for
\* the recorded checksum with another identifier, and false for another asset
C14_Witness ==
    /\ pc = "done"
    /\ skip_duplicates
    /\ \E k \in DOMAIN upload_results :
         /\ upload_results[k].status = "SKIPPED_DUPLICATE"
         /\ upload_results[k].md5Checksum = ""
    /\ is_duplicate(PyNone, "f3")
    /\ is_duplicate("c2", "f9")
    /\ ~is_duplicate("c1", "f1")

\* C15: record_upload with an empty or absent checksum leaves the in-memory
\* tracker and the tracker file as they are (no entry is ever stored under
\* such a key, in memory or in the file), and the asset gets its SUCCESS
\* result; so an asset without checksum is skipped as a duplicate, in this run
\* or a later one, only when an entry stored under a checksum carries its
\* identifier.
C15_NoRecordWithoutChecksum ==
    /\ [](/\ \A c \in {"", PyNone}, f \in AskedIds :
               RecordedTracker(c, f, <<"mediaItem", 1>>, <<"P", "b.jpg">>) = uploaded_photos
          /\ \A key \in DOMAIN uploaded_photos : Truthy(key)
          /\ \A member \in tracker_file.members : Truthy(member[1])
          /\ \A k \in DOMAIN upload_results :
               (upload_results[k].status = "SKIPPED_DUPLICATE" /\ ~Truthy(photos[k].md5Checksum))
                  => \E key \in DOMAIN uploaded_photos :
                        Truthy(key) /\ uploaded_photos[key].file_id = photos[k].id)
    /\ [][(pc = "record" /\ ~Truthy(photos[i].md5Checksum) /\ pc' # "crashed") =>
            /\ UNCHANGED <<uploaded_photos, tracker_file>>
            /\ upload_results' = Append(upload_results, result)
            /\ result.status = "SUCCESS"]_vars

\* a finished run with duplicate-skipping enabled that uploaded the same asset
\* without checksum twice: the second time it was not taken for a duplicate
C15_Witness ==
    /\ pc = "done"
    /\ skip_duplicates
    /\ Len(upload_results) = 2
    /\ photos[1] = photos[2]
    /\ photos[1].md5Checksum = ""
    /\ upload_results[1].status = "SUCCESS"
    /\ upload_results[2].status = "SUCCESS"
    /\ uploaded_photos = EmptyMap

\* C16: loading the tracker never fails the run: when the tracker file is
\* missing or its content is no tracker, the constructor returns with an empty
\* tracker and the run can proceed.
C16_LoadNeverFatal ==
    /\ pc # "load_failed"
    /\ (pc = "start" /\ (~tracker_file.exists \/ ~tracker_file.valid)) =>
           uploaded_photos = EmptyMap

\* the assets processed so far were all uploaded with SUCCESS and have
\* non-empty checksums that differ from one another
AllRecordedDistinct ==
    /\ \A k \in DOMAIN upload_results :
         upload_results[k].status = "SUCCESS" /\ Truthy(photos[k].md5Checksum)
    /\ \A j, k \in DOMAIN upload_results :
         j # k => photos[j].md5Checksum # photos[k].md5Checksum

\* C17: every completed save writes a file whose load is the in-memory tracker;
\* and after a run that began with an empty tracker has recorded N assets with
\* distinct non-empty checksums, the load of the tracker file has exactly these
\* N checksums as keys, each with the file_id, photos_id, path and uploaded_at
\* that were recorded for it.
C17_TrackerRoundTrip ==
    /\ [][(pc = "saving" /\ tracker_file'.valid) =>
            LoadUploadedTracker(tracker_file') = uploaded_photos]_vars
    /\ []((pc \in {"check", "done"} /\ loaded_tracker = EmptyMap /\ upload_results # <<>>
             /\ AllRecordedDistinct) =>
            LET loaded == LoadUploadedTracker(tracker_file) IN
            /\ DOMAIN loaded = { photos[k].md5Checksum : k \in DOMAIN upload_results }
            /\ \A k \in DOMAIN upload_results :
                 loaded[photos[k].md5Checksum] =
                    [file_id |-> photos[k].id,
                     photos_id |-> upload_results[k].photos_id,
                     path |-> photos[k].path,
                     uploaded_at |-> <<k, "record">>])

\* a finished run that recorded two assets with different checksums, and a
\* tracker file that loads with two keys
C17_Witness ==
    /\ pc = "done"
    /\ Len(upload_results) = 2
    /\ loaded_tracker = EmptyMap
    /\ AllRecordedDistinct
    /\ Cardinality(DOMAIN LoadUploadedTracker(tracker_file)) = 2

-----------------------------------------------------------------------------
(* Further claims about the scanner, checked under ScanSpec *)

\* the folders that answer a lookup: named so, directly in the parent
Matching(query) ==
    { n \in DOMAIN tree : /\ tree[n].parent = query.parent
                          /\ Name(n) = query.name
                          /\ tree[n].mimeType = FOLDER_MIME }

\* C18: when scan_paths resolves a path, the segments looked up are those of
\* the path without a leading "My Drive" (so "My Drive/x" is one lookup, of a
\* folder named x in the root); the first lookup is in the root and each later
\* one in the folder the lookup before it found; the lookups stop at the first
\* segment without a matching folder, the path is then not found and the scan
\* goes on to the next path; otherwise the folder of the last lookup is found.
C18_ResolveLookups ==
    [][(spc = "paths" /\ path_ix' = path_ix + 1) =>
         LET folder_path == folder_paths[path_ix]
             segments == IF folder_path # <<>> /\ folder_path[1] = "My Drive"
                         THEN Tail(folder_path) ELSE folder_path
             found == scan_roots' # scan_roots
         IN /\ Len(lookups') <= Len(segments)
            /\ \A n \in DOMAIN lookups' :
                 /\ lookups'[n].name = segments[n]
                 /\ lookups'[n].parent =
                       IF n = 1 THEN Root ELSE CHOOSE m \in Matching(lookups'[n - 1]) : TRUE
                 /\ n < Len(lookups') => Matching(lookups'[n]) # {}
            /\ Len(lookups') < Len(segments) => Matching(lookups'[Len(lookups')]) = {}
            /\ found <=> \A n \in DOMAIN lookups' : Matching(lookups'[n]) # {}
            /\ found => /\ Len(lookups') = Len(segments)
                        /\ scan_roots'[Len(scan_roots')].path = folder_path
                        /\ scan_roots'[Len(scan_roots')].id =
                              IF segments = <<>> THEN Root
                              ELSE CHOOSE m \in Matching(lookups'[Len(lookups')]) : TRUE
            /\ spc' = "paths"]_vars

\* "My Drive/a" was resolved with the single lookup of a folder a in the root
\* and found, and before it a path was given up at its first missing segment
C18_Witness ==
    /\ spc = "done"
    /\ folder_paths = << <<"My Drive", "missing", "a">>, <<"My Drive", "a">> >>
    /\ lookups = << [parent |-> Root, name |-> "a"] >>
    /\ Len(scan_roots) = 1
    /\ scan_roots[1].path = <<"My Drive", "a">>

\* the folder a root path names: the path without a leading "My Drive" is the
\* path of the folder from the root
FoldersAt(folder_path) ==
    LET segments == IF folder_path # <<>> /\ folder_path[1] = "My Drive"
                    THEN Tail(folder_path) ELSE folder_path
    IN { n \in DOMAIN tree \cup {Root} :
           IsFolder(tree, n) /\ PathFromRoot(tree, n) = segments }

\* the photos in folder n and below, each with its path below `prefix`
RECURSIVE PhotosBelow(_, _)
PhotosBelow(n, prefix) ==
    { <<m, Append(prefix, Name(m))>> :
        m \in { c \in ChildrenOf(n) : tree[c].mimeType \in PHOTO_MIME_TYPES } }
    \cup UNION { PhotosBelow(m, Append(prefix, Name(m))) :
                   m \in { c \in ChildrenOf(n) : tree[c].mimeType = FOLDER_MIME } }

\* the lists of separate scans of the roots from the k-th on, one after another
RECURSIVE SeparateScans(_, _)
SeparateScans(roots, k) ==
    IF k > Len(roots) THEN NoLists
    ELSE LET one == scan_folder(roots[k].id, roots[k].path, NoLists)
             rest == SeparateScans(roots, k + 1)
         IN [photos_found |-> one.photos_found \o rest.photos_found,
             empty_folders |-> one.empty_folders \o rest.empty_folders]

\* C19: when scan_paths has returned, the paths scanned are exactly the given
\* paths that name a folder, in list order, whatever paths before or after
\* them do not resolve; the lists are those of separate scans of these folders
\* put one after another; every photo below a resolved path is in the photo
\* list under the given path followed by its path below the folder, every
\* folder without entries below a resolved path is in the empty-folder list
\* likewise, and every recorded path begins with the given path of a scanned root.
C19_PathsIndependent ==
    (spc = "done" /\ path_ix >= 1) =>
        /\ [n \in DOMAIN scan_roots |-> scan_roots[n].path]
              = SelectSeq(folder_paths, LAMBDA p : FoldersAt(p) # {})
        /\ \A r \in Range(scan_roots) : r.id \in FoldersAt(r.path)
        /\ photos_found = SeparateScans(scan_roots, 1).photos_found
        /\ empty_folders = SeparateScans(scan_roots, 1).empty_folders
        /\ \A r \in Range(scan_roots) :
             /\ \A ph \in PhotosBelow(r.id, r.path) :
                  \E rec \in Range(photos_found) : rec.id = ph[1] /\ rec.path = ph[2]
             /\ \A f \in FoldersBelow(r.id, r.path) :
                  ChildrenOf(f[1]) = {} => f[2] \in Range(empty_folders)
        /\ \A rec \in Range(photos_found) :
             \E r \in Range(scan_roots) : <<rec.id, rec.path>> \in PhotosBelow(r.id, r.path)
        /\ \A e \in Range(empty_folders) :
             \E r \in Range(scan_roots) : StrictPrefix(r.path, e)

\* scan_paths has returned after a path that did not resolve and a path that
\* did, with a photo recorded under the second path
C19_Witness ==
    /\ spc = "done"
    /\ Len(folder_paths) = 2
    /\ FoldersAt(folder_paths[1]) = {}
    /\ Len(scan_roots) = 1
    /\ scan_roots[1].path = folder_paths[2]
    /\ \E rec \in Range(photos_found) : StrictPrefix(folder_paths[2], rec.path)

\* the class of entry m as the claim defines it
ClassOf(m) ==
    IF tree[m].mimeType = "application/vnd.google-apps.folder" THEN "Folder"
    ELSE IF tree[m].mimeType \in PHOTO_MIME_TYPES THEN "Photo"
    ELSE "OtherFile"

\* the entries in folder n and below
RECURSIVE EntriesBelow(_)
EntriesBelow(n) ==
    ChildrenOf(n) \cup UNION { EntriesBelow(m) :
                                 m \in { c \in ChildrenOf(n) : tree[c].mimeType = FOLDER_MIME } }

\* C20: image/heic is a photo, application/pdf and the folder type are not;
\* after a scan, an entry below a scanned root is in the photo list if and only
\* if it is a Photo (not of the folder type, content type in the allow-list),
\* the entries of every Folder are scanned in turn, and scan_folder returns for
\* every folder the number of its Photos and OtherFiles together as file count
\* and the number of its Folders as subfolder count.
C20_Classification ==
    [](/\ is_photo("image/heic") /\ ~is_photo("application/pdf") /\ ~is_photo(FOLDER_MIME)
       /\ spc = "done" =>
            /\ \A rec \in Range(photos_found) : ClassOf(rec.id) = "Photo"
            /\ \A r \in Range(scan_roots) : \A m \in EntriesBelow(r.id) :
                 ClassOf(m) = "Photo" <=> \E rec \in Range(photos_found) : rec.id = m
            /\ \A n \in { m \in DOMAIN tree : ClassOf(m) = "Folder" } \cup {Root} :
                 LET pair == scan_folder(n, <<"x">>, NoLists) IN
                 /\ pair.file_count = Cardinality({ c \in ChildrenOf(n) : ClassOf(c) # "Folder" })
                 /\ pair.subfolder_count = Cardinality({ c \in ChildrenOf(n) : ClassOf(c) = "Folder" }))

\* a finished scan() of a root that holds an image/heic file, an
\* application/pdf file and a folder: one photo is stored, two files are counted
C20_Witness ==
    /\ spc = "done"
    /\ path_ix = 0
    /\ scan_roots[1].id = Root
    /\ { tree[c].mimeType : c \in ChildrenOf(Root) } = MimeTypes
    /\ Len(tree) = 3
    /\ Len(photos_found) = 1
    /\ tree[photos_found[1].id].mimeType = "image/heic"
    /\ scan_folder(Root, <<>>, NoLists).file_count = 2

-----------------------------------------------------------------------------
(* Claims about the scan output and the run report *)

\* C21: when a scan has returned, every photo below a scanned root is in the
\* photo list, every entry of the list lies below a scanned root, and no
\* identifier is in the list more than once, also when roots repeat or lie
\* inside one another.
C21_OutputIsSetOfPhotos ==
    spc = "done" =>
        /\ \A r \in Range(scan_roots) : \A ph \in PhotosBelow(r.id, r.path) :
             \E rec \in Range(photos_found) : rec.id = ph[1]
        /\ \A rec \in Range(photos_found) :
             \E r \in Range(scan_roots) : rec.id \in EntriesBelow(r.id)
        /\ \A j, k \in DOMAIN photos_found :
             j # k => photos_found[j].id # photos_found[k].id

\* C23: for every folder of the Drive (the root included), called on empty
\* lists or on the lists a finished scan has left, scan_folder returns
\* the number of the folder's direct entries that are not folders and the
\* number of its direct entries that are folders; so the pair is the same
\* whether or not a folder below it is empty or was recorded as empty.
C23_DirectCounts ==
    spc = "done" =>
    \A n \in { m \in DOMAIN tree : tree[m].mimeType = FOLDER_MIME } \cup {Root} :
        \A acc \in { NoLists, [photos_found |-> photos_found, empty_folders |-> empty_folders] } :
            LET returned == scan_folder(n, <<"My Drive", "x">>, acc) IN
            /\ returned.file_count =
                  Cardinality({ c \in ChildrenOf(n) : tree[c].mimeType # FOLDER_MIME })
            /\ returned.subfolder_count =
                  Cardinality({ c \in ChildrenOf(n) : tree[c].mimeType = FOLDER_MIME })

\* a finished scan of a folder whose only entry is a subfolder without entries:
\* the subfolder was recorded as empty, and the folder still counts it
C23_Witness ==
    /\ spc = "done"
    /\ \E r \in Range(scan_roots) :
         \E m \in ChildrenOf(r.id) :
             /\ ChildrenOf(r.id) = {m}
             /\ tree[m].mimeType = FOLDER_MIME
             /\ ChildrenOf(m) = {}
             /\ Append(r.path, Name(m)) \in Range(empty_folders)
             /\ scan_folder(r.id, r.path, NoLists).subfolder_count = 1
             /\ scan_folder(r.id, r.path, NoLists).file_count = 0

\* C25: the result of an asset has status SUCCESS if and only if an item was
\* created in the destination for that asset during the run; in particular no
\* asset with a created item has status FAILED or ERROR.
C25_SuccessIffItemCreated ==
    \A k \in DOMAIN upload_results :
        upload_results[k].status = "SUCCESS" <=>
            \E item \in media_items :
                item = [file_id |-> photos[k].id, photos_id |-> <<"mediaItem", k>>]

\* C27: with duplicate-skipping disabled no asset gets SKIPPED_DUPLICATE and
\* every asset processed is downloaded, whatever the tracker holds; and when
\* such a run has returned, every asset with a non-empty checksum that it
\* uploaded with SUCCESS is a key of the in-memory tracker and of the tracker
\* a later run loads from the file, which is what makes that run skip it.
C27_DisabledStillRecords ==
    ~skip_duplicates =>
        /\ \A k \in DOMAIN upload_results :
             /\ upload_results[k].status # "SKIPPED_DUPLICATE"
             /\ "download" \in CallsFor(k)
        /\ pc = "done" =>
             \A k \in DOMAIN upload_results :
                 (upload_results[k].status = "SUCCESS" /\ Truthy(photos[k].md5Checksum)) =>
                     /\ photos[k].md5Checksum \in DOMAIN uploaded_photos
                     /\ photos[k].md5Checksum \in DOMAIN LoadUploadedTracker(tracker_file)

\* C24: when upload_all has returned, the three counts it printed add up to the
\* number of results, which is the number of assets; the header counts of the
\* report written then are the numbers of results with status SUCCESS, with
\* status SKIPPED_DUPLICATE and with status FAILED or ERROR, they add up to
\* its total, which is the number of results and of assets, and they are the
\* counts that were printed.
C24_CountsPartition ==
    /\ counts.printed # NoCount => pc = "done"
    /\ pc = "done" =>
         LET report == write_results IN
         /\ counts.printed.uploaded + counts.printed.skipped + counts.printed.failed
               = Len(upload_results)
         /\ report.uploaded =
               Cardinality({ k \in DOMAIN upload_results : upload_results[k].status = "SUCCESS" })
         /\ report.skipped =
               Cardinality({ k \in DOMAIN upload_results :
                               upload_results[k].status = "SKIPPED_DUPLICATE" })
         /\ report.failed =
               Cardinality({ k \in DOMAIN upload_results :
                               upload_results[k].status \in {"FAILED", "ERROR"} })
         /\ report.uploaded + report.skipped + report.failed = report.total
         /\ report.total = Len(upload_results)
         /\ report.total = Len(photos)
         /\ counts.printed.uploaded = report.uploaded
         /\ counts.printed.skipped = report.skipped
         /\ counts.printed.failed = report.failed

\* a run that uploaded one asset and skipped the other has returned: it
\* printed one uploaded, one skipped, none failed, and the report says the same
C24_Witness ==
    /\ pc = "done"
    /\ counts.printed = [uploaded |-> 1, skipped |-> 1, failed |-> 0]
    /\ write_results = [total |-> 2, uploaded |-> 1, skipped |-> 1, failed |-> 0]
    /\ upload_results[1].status = "SUCCESS"
    /\ upload_results[2].status = "SKIPPED_DUPLICATE"

\* the folders a scan started on folder n lists: n and the folders below it
FoldersListed(n) == {n} \cup { m \in EntriesBelow(n) : tree[m].mimeType = FOLDER_MIME }

\* C22: a scan (scan or scan_paths) returns, and run_scan writes, only when no
\* files().list request raised in the listing of a scanned root or of a folder
\* below one, and then every photo below a scanned root is in the photo list
\* under its path; what is written is the lists as the scan left them; a scan
\* that ended in the exception of a listing has listed a folder whose request
\* raised, and nothing has been written.
C22_ListingFailurePropagates ==
    /\ spc \in {"done", "written"} =>
         \A r \in Range(scan_roots) :
            /\ \A f \in FoldersListed(r.id) : ~list_files_in_folder(f).raised
            /\ \A ph \in PhotosBelow(r.id, r.path) :
                 \E rec \in Range(photos_found) : rec.id = ph[1] /\ rec.path = ph[2]
    /\ written.done =>
         /\ spc = "written"
         /\ written.photos_found = photos_found
         /\ written.empty_folders = empty_folders
    /\ spc = "failed" =>
         /\ ~written.done
         /\ \E r \in Range(scan_roots) :
              \E f \in FoldersListed(r.id) : list_files_in_folder(f).raised

\* a scan has ended in the exception of a request that followed a page with a
\* photo, and the photo is in the list
C22_Witness ==
    /\ spc = "failed"
    /\ fail_at.after > 0
    /\ photos_found # <<>>
    /\ ~written.done

\* C26: when the fallback reader has read the photos.txt that write_results
\* wrote for the photo list of a scan, it holds as many photos as the list,
\* in the same order, each with the identifier, the path and the content type
\* of the photo in the list, and with its checksum, a photo without a checksum
\* being read without a checksum.
C26_LegacyRoundTrip ==
    pc = "loaded" =>
        /\ Len(photos) = Len(photos_found)
        /\ \A k \in DOMAIN photos_found \cap DOMAIN photos :
             /\ photos[k].id = <<photos_found[k].id>>
             /\ photos[k].path = PathText(photos_found[k].path)
             /\ photos[k].mimeType = <<photos_found[k].mimeType>>
             /\ photos[k].md5Checksum = IF Truthy(photos_found[k].md5Checksum)
                                        THEN <<photos_found[k].md5Checksum>> ELSE Absent

====
